---- MODULE Spec2Model ----
(***************************************************************************)
(* A model of the PGD gateway: the LLM provider layer of ai_service.py     *)
(* (ModelProcessor: initialization, report generation with its retry loop, *)
(* follow-up chat) and the request handlers of main.py (/chat with the     *)
(* per-session question limit, /analyze_personality, /health).             *)
(*                                                                         *)
(* The specifications share the variables:                                 *)
(*   Spec      the gateway process serving /chat: module-level startup,    *)
(*             then the handler run as coroutines of one event loop, for   *)
(*             two sessions, with the clock;                               *)
(*   SpecOne   the same with the requests of one session only;             *)
(*   SpecReport the gateway serving every endpoint, without the clock;     *)
(*   SpecProc  the methods of one ModelProcessor instance called directly; *)
(*   SpecInc   _increment_session / _cleanup_sessions called from several  *)
(*             threads, step by step, under _session_lock.                 *)
(***************************************************************************)
EXTENDS Integers, Sequences, FiniteSets, TLC

(***************************************************************************)
(* Program constants                                                       *)
(***************************************************************************)
\* main.py:304
MAX_QUESTIONS == 15
\* main.py:305, seconds
SESSION_TTL == 24 * 3600
\* ai_service.py:222, the local `attempts` of _call_openai
attempts == 3

(***************************************************************************)
(* Bounds of the model                                                     *)
(***************************************************************************)
\* how many times the clock advances in one run
MaxTicks == 2
\* how many refused /chat requests per session are followed past the limit
MaxRefused == 2
\* coroutine slots of the event loop (requests in flight at once)
NumSlots == 2
\* threads of SpecInc
NumWorkers == 3
\* the longest text given to _clean_markdown
MaxLen == 3
\* the longest run of newlines put between two words
MaxRun == 4
\* the most blocks of a payload
MaxBlocks == 2

Sessions == {"s1", "s2"}
Slots == 1..NumSlots
Workers == 1..NumWorkers
NoSlot == 0
\* the session id of the /chat requests of SpecOne and SpecReport
OneSession == {"s1"}

\* the provider kinds LLMConfig and ModelProcessor know (ai_service.py:76-116)
Providers == {"openai", "perplexity", "gemini", "groq"}
\* LLM_PROVIDER is read from the environment and may be any string
ProviderTags == Providers \cup {"other"}
\* what one outbound SDK call does: it returns a response or it raises
Outcomes == {"ok", "error"}
\* the three sections analyze_personality reads from the PGD payload
Sections == {"chashka", "rod", "per"}

VARIABLES
    \* ---- environment and module-level state of main.py
    phase,              \* "boot" before the module body has run, then "serving"
    LLM_PROVIDER,       \* ai_service.py:7
    credential,         \* whether the API key of LLM_PROVIDER is in the environment
    PGD_AVAILABLE,      \* main.py:70-82
    LLM_AVAILABLE,      \* main.py:70, 84-96
    ai_manager,         \* main.py:71, 87: TRUE when a ModelProcessor was built
    client,             \* ModelProcessor.client is truthy (ai_service.py:133)
    inits,              \* how many times ModelProcessor() has been constructed
    \* ---- session limiter of main.py
    _session_counters,  \* main.py:307: session id -> [count, last_seen]
    _session_lock,      \* main.py:308: 0 when free, else the thread holding it
    now,                \* time.time()
    ticks,              \* how many times the clock has advanced
    \* ---- event loop
    running,            \* the slot whose coroutine holds the loop, or NoSlot
    slot,               \* per slot: the locals of the /chat coroutine in it
    resp,               \* the response the step just taken returned, with its
                        \* request; NoResp after a step that returned none
    asked,              \* per session: /chat requests that reached the quota check
                        \* since the record was last absent
    dispatched,         \* per session: chat_with_report calls since then
    removed,            \* per session: "no", or whether a sweep has removed a record
                        \* of it ("yes"; "full" when that record held MAX_QUESTIONS;
                        \* "refused" when its session had also been refused)
    \* ---- SpecProc
    ret,                \* the last direct method call and what it returned
    \* ---- SpecInc
    worker,             \* per thread: its position in _increment_session
    swept               \* a _cleanup_sessions call removed a record

vars == <<phase, LLM_PROVIDER, credential, PGD_AVAILABLE, LLM_AVAILABLE, ai_manager,
          client, inits, _session_counters, _session_lock, now, ticks, running, slot,
          resp, asked, dispatched, removed, ret, worker, swept>>

envVars == <<LLM_PROVIDER, credential, PGD_AVAILABLE>>
bootVars == <<phase, LLM_AVAILABLE, ai_manager, client, inits>>
loopVars == <<running, slot, resp, asked, dispatched, removed>>
clockVars == <<now, ticks>>

(***************************************************************************)
(* ai_service.py: _clean_markdown (lines 377-386).  A text is a sequence of *)
(* characters; the characters followed are                                 *)
(*   "a" a letter, "n" the letter n, "sp" a space, "nl" a newline,         *)
(*   "bs" a backslash, "bt" a backtick, "#", "*" and "-".                  *)
(***************************************************************************)
Chars == {"a", "n", "sp", "nl", "bs", "bt", "#", "*", "-"}

\* \s of the regular expressions, and what str.strip() removes
Whitespace == {"sp", "nl"}

\* the last index of the run of characters of S that starts at i (i - 1: no run)
RunEnd(t, i, S) ==
    CHOOSE j \in (i - 1)..Len(t) :
        /\ \A k \in i..j : t[k] \in S
        /\ j = Len(t) \/ t[j + 1] \notin S

\* ^ under re.MULTILINE
AtLineStart(t, i) == i = 1 \/ t[i - 1] = "nl"

\* text.replace("\\n", "\n"): backslash followed by n becomes a newline
RECURSIVE UnescapeNewlines(_)
UnescapeNewlines(t) ==
    IF Len(t) < 2 THEN t
    ELSE IF t[1] = "bs" /\ t[2] = "n"
         THEN <<"nl">> \o UnescapeNewlines(SubSeq(t, 3, Len(t)))
         ELSE <<t[1]>> \o UnescapeNewlines(Tail(t))

\* .replace("\\", "")
DropBackslashes(t) == SelectSeq(t, LAMBDA c : c # "bs")

\* r"^#{1,6}\s+" tried at i: the index its match ends at, 0 when it does not match
HeaderEnd(t, i) ==
    LET h == RunEnd(t, i, {"#"})
        w == RunEnd(t, h + 1, Whitespace)
    IN  IF AtLineStart(t, i) /\ h - i + 1 \in 1..6 /\ w > h THEN w ELSE 0

\* re.sub(r"^#{1,6}\s+", "", text, flags=re.MULTILINE), from index i on
RECURSIVE StripHeaders(_, _)
StripHeaders(t, i) ==
    IF i > Len(t) THEN <<>>
    ELSE LET e == HeaderEnd(t, i)
         IN  IF e > 0 THEN StripHeaders(t, e + 1)
             ELSE <<t[i]>> \o StripHeaders(t, i + 1)

\* the delimiter (d repeated n times) stands at i
DelimAt(t, i, d, n) == i + n - 1 <= Len(t) /\ \A k \in 0..(n - 1) : t[i + k] = d

\* d{n}(.+?)d{n} tried at i: the index its closing delimiter starts at, 0 when
\* it does not match. A dot is any character but a newline, and the shortest
\* content is taken.
CloseAt(t, i, d, n) ==
    LET closes == {c \in (i + n + 1)..Len(t) :
                      /\ DelimAt(t, c, d, n)
                      /\ \A k \in (i + n)..(c - 1) : t[k] # "nl"}
    IN  IF DelimAt(t, i, d, n) /\ closes # {}
        THEN CHOOSE c \in closes : \A x \in closes : c <= x
        ELSE 0

\* re.sub of d{n}(.+?)d{n} by \1, from index i on
RECURSIVE Unwrap(_, _, _, _)
Unwrap(t, i, d, n) ==
    IF i > Len(t) THEN <<>>
    ELSE LET c == CloseAt(t, i, d, n)
         IN  IF c > 0 THEN SubSeq(t, i + n, c - 1) \o Unwrap(t, c + n, d, n)
             ELSE <<t[i]>> \o Unwrap(t, i + 1, d, n)

\* r"^[ \t]*[-*]\s+" (the bullet character left out) tried at i: the index its match ends at, 0 when it does
\* not match
BulletEnd(t, i) ==
    LET s == RunEnd(t, i, {"sp"})
        w == RunEnd(t, s + 2, Whitespace)
    IN  IF /\ AtLineStart(t, i)
           /\ s + 1 <= Len(t)
           /\ t[s + 1] \in {"-", "*"}
           /\ w >= s + 2
        THEN w ELSE 0

\* the re.sub of line 384, from index i on
RECURSIVE StripBullets(_, _)
StripBullets(t, i) ==
    IF i > Len(t) THEN <<>>
    ELSE LET e == BulletEnd(t, i)
         IN  IF e > 0 THEN StripBullets(t, e + 1)
             ELSE <<t[i]>> \o StripBullets(t, i + 1)

\* (a variant: every run of two or more newlines is left as it is)
CollapsedRunKept(k) == [i \in 1..k |-> "nl"]

\* what r"\n{3,}" -> "\n\n" leaves of a run of k newlines
CollapsedRun(k) == IF k >= 3 THEN <<"nl", "nl">> ELSE [i \in 1..k |-> "nl"]

\* re.sub(r"\n{3,}", "\n\n", text), from index i on
RECURSIVE CollapseNewlines(_, _)
CollapseNewlines(t, i) ==
    IF i > Len(t) THEN <<>>
    ELSE IF t[i] = "nl"
         THEN LET e == RunEnd(t, i, {"nl"})
              IN  CollapsedRun(e - i + 1) \o CollapseNewlines(t, e + 1)
         ELSE <<t[i]>> \o CollapseNewlines(t, i + 1)

\* str.strip()
Strip(t) ==
    LET kept == {i \in 1..Len(t) : t[i] \notin Whitespace}
    IN  IF kept = {} THEN <<>>
        ELSE SubSeq(t, CHOOSE i \in kept : \A x \in kept : i <= x,
                       CHOOSE i \in kept : \A x \in kept : i >= x)

_clean_markdown(text) ==
    LET t1 == DropBackslashes(UnescapeNewlines(text))
        t2 == StripHeaders(t1, 1)
        t3 == Unwrap(t2, 1, "*", 2)
        t4 == Unwrap(t3, 1, "*", 1)
        t5 == Unwrap(t4, 1, "bt", 1)
        t6 == StripBullets(t5, 1)
        t7 == CollapseNewlines(t6, 1)
    IN  Strip(t7)

(***************************************************************************)
(* ai_service.py: LLMConfig (lines 66-125) and the keyword arguments of    *)
(* the SDK calls.  An optional value is a set: {} is None, {v} is v.  A    *)
(* model name is its sequence of characters; a temperature is in tenths.   *)
(***************************************************************************)
Gpt4o == <<"g", "p", "t", "-", "4", "o">>
O1 == <<"o", "1">>
O3Mini == <<"o", "3", "-", "m", "i", "n", "i">>
SonarPro == <<"s", "o", "n", "a", "r", "-", "p", "r", "o">>
GeminiPro == <<"g", "e", "m", "i", "n", "i", "-", "2", ".", "5", "-", "p", "r", "o">>
Llama == <<"l", "l", "a", "m", "a", "-", "3", ".", "3", "-", "7", "0", "b", "-", "v", "e", "r", "s", "a", "t", "i", "l", "e">>

\* `m in self.model_name`
Contains(name, m) ==
    \E i \in 1..(Len(name) - Len(m) + 1) : SubSeq(name, i, i + Len(m) - 1) = m

\* the default of os.getenv(<PROVIDER>_MODEL, default)
DefaultModel(provider) ==
    CASE provider = "openai" -> Gpt4o
      [] provider = "perplexity" -> SonarPro
      [] provider = "gemini" -> GeminiPro
      [] provider = "groq" -> Llama

\* `a or b` on an optional string ("" is falsy) and on an optional number (0 is
\* falsy), and `a if a is not None else b`
OrElse(a, b) == IF a = {} \/ a = {<<>>} THEN b ELSE a
OrElseNumber(a, b) == IF a = {} \/ a = {0} THEN b ELSE a
IfNone(a, b) == IF a = {} THEN b ELSE a

\* (a variant: the temperature passed is stored whatever the model is)
LLMConfigKeepsTemperature(provider, model_name, temperature, max_completion_tokens, env) ==
    LET name == OrElse(model_name, IfNone(env.model, {Gpt4o}))
    IN  IF provider = "openai"
        THEN [provider |-> provider, model_name |-> name,
              supports_temperature |->
                  ~\E n \in name : Contains(n, <<"o", "1">>) \/ Contains(n, <<"o", "3">>),
              temperature |-> IfNone(temperature, IfNone(env.temperature, {7})),
              max_completion_tokens |->
                  IfNone(max_completion_tokens, IfNone(env.max_completion_tokens, {4000}))]
        ELSE IF provider \in {"perplexity", "gemini", "groq"}
        THEN [provider |-> provider,
              model_name |-> OrElse(model_name, IfNone(env.model, {DefaultModel(provider)})),
              supports_temperature |-> TRUE,
              temperature |-> IfNone(temperature,
                                     IF provider = "perplexity" THEN {7} ELSE {6}),
              max_completion_tokens |-> OrElseNumber(max_completion_tokens, {8000})]
        ELSE [provider |-> provider]

\* LLMConfig.__init__. env: the variables of the environment the branch of
\* this provider reads. A provider tag without a branch leaves the object
\* with `provider` only.
LLMConfig(provider, model_name, temperature, max_completion_tokens, env) ==
    IF provider = "openai"
    THEN LET name == OrElse(model_name, IfNone(env.model, {Gpt4o}))
             reasoning == \E n \in name :
                             Contains(n, <<"o", "1">>) \/ Contains(n, <<"o", "3">>)
         IN  [provider |-> provider, model_name |-> name,
              supports_temperature |-> ~reasoning,
              temperature |-> IF reasoning THEN {}
                              ELSE IfNone(temperature, IfNone(env.temperature, {7})),
              max_completion_tokens |->
                  IfNone(max_completion_tokens, IfNone(env.max_completion_tokens, {4000}))]
    ELSE IF provider \in {"perplexity", "gemini", "groq"}
    THEN [provider |-> provider,
          model_name |-> OrElse(model_name, IfNone(env.model, {DefaultModel(provider)})),
          supports_temperature |-> TRUE,
          temperature |-> IfNone(temperature, IF provider = "perplexity" THEN {7} ELSE {6}),
          max_completion_tokens |-> OrElseNumber(max_completion_tokens, {8000})]
    ELSE [provider |-> provider]

\* no keyword argument
NoArgs == [k \in {} |-> {}]

\* LLMConfig.to_token_params
to_token_params(config) == [max_tokens |-> config.max_completion_tokens]

\* LLMConfig.maybe_temperature_arg
maybe_temperature_arg(config) ==
    IF /\ "supports_temperature" \in DOMAIN config
       /\ config.supports_temperature
       /\ config.temperature # {}
    THEN [temperature |-> config.temperature]
    ELSE NoArgs

\* the keyword arguments of the test request of _init_openai (lines 161-166)
PingArgs(config) ==
    [model |-> config.model_name, max_tokens |-> {5}] @@ maybe_temperature_arg(config)

\* the keyword arguments of the SDK call of a report: create() of _call_openai,
\* _call_perplexity and _call_groq, generation_config of _call_gemini
ReportArgs(config) ==
    IF config.provider = "gemini"
    THEN [temperature |-> config.temperature,
          max_output_tokens |-> config.max_completion_tokens]
    ELSE [model |-> config.model_name]
             @@ maybe_temperature_arg(config) @@ to_token_params(config)

\* the keyword arguments of the SDK call of chat_with_report (lines 341-364)
ChatArgs(config) ==
    IF config.provider = "gemini"
    THEN NoArgs
    ELSE [model |-> config.model_name, max_tokens |-> {1000}]
             @@ maybe_temperature_arg(config)

(***************************************************************************)
(* ai_service.py: the provider calls                                       *)
(***************************************************************************)
\* `response.choices.message.content` (ai_service.py:168, 234, 251, 274, 355):
\* the SDK's `choices` is a list, which has no attribute `message`, so the
\* expression raises AttributeError whenever the call itself returned.
ChoicesHasMessage == FALSE

\* The text of a message-list completion: obtained when create() returned and
\* the content could be read from the response.
MessageText(outcome) == outcome = "ok" /\ ChoicesHasMessage

\* response.text of generate_content (ai_service.py:262, 364)
GeminiText(outcome) == outcome = "ok"

\* What a _call_* method did: whether it raised, how many SDK calls it made and
\* how many times it slept.
CallResult(raised, calls, sleeps) == [raised |-> raised, calls |-> calls, sleeps |-> sleeps]

\* _call_openai's loop body for attempt i (0-based): return on success, raise
\* after the last attempt, otherwise sleep and go on.
RECURSIVE OpenAIAttempt(_, _)
OpenAIAttempt(i, outcomes) ==
    IF MessageText(outcomes[i + 1])
    THEN CallResult(FALSE, i + 1, i)
    ELSE IF i = attempts - 1
         THEN CallResult(TRUE, i + 1, i)
         ELSE OpenAIAttempt(i + 1, outcomes)

_call_openai(outcomes) == OpenAIAttempt(0, outcomes)

\* (a variant: the sleep comes before the test for the last attempt)
RECURSIVE OpenAIEventsSleepFirst(_, _)
OpenAIEventsSleepFirst(i, outcomes) ==
    IF MessageText(outcomes[i + 1])
    THEN <<"call", "return">>
    ELSE IF i = attempts - 1
         THEN <<"call", "sleep", "raise">>
         ELSE <<"call", "sleep">> \o OpenAIEventsSleepFirst(i + 1, outcomes)

\* what _call_openai does from attempt i (0-based) on, in order: "call" the SDK
\* call with the reading of its response, "sleep" time.sleep(2), "return" and
\* "raise" the way the method is left
RECURSIVE OpenAIEvents(_, _)
OpenAIEvents(i, outcomes) ==
    IF MessageText(outcomes[i + 1])
    THEN <<"call", "return">>
    ELSE IF i = attempts - 1
         THEN <<"call", "raise">>
         ELSE <<"call", "sleep">> \o OpenAIEvents(i + 1, outcomes)

_call_perplexity(outcomes) == CallResult(~MessageText(outcomes[1]), 1, 0)

_call_gemini(outcomes) == CallResult(~GeminiText(outcomes[1]), 1, 0)

_call_groq(outcomes) == CallResult(~MessageText(outcomes[1]), 1, 0)

\* call_methods[self.provider](pgd_text)
call_methods(provider, outcomes) ==
    CASE provider = "openai" -> _call_openai(outcomes)
      [] provider = "perplexity" -> _call_perplexity(outcomes)
      [] provider = "gemini" -> _call_gemini(outcomes)
      [] provider = "groq" -> _call_groq(outcomes)

\* What a public method returned: the kind of text, the SDK calls made, the
\* sleeps made, and whether an exception left the method.
\*   "model"            _clean_markdown of the model's text
\*   "fallback"         _fallback_response: "Портрет для <name> временно недоступен ..."
\*   "not_initialized"  "Ошибка: Модель не инициализирована."
\*   "apology"          "Извините, возникла техническая сложность. ..."
\*   "unsupported"      "Метод чата не поддерживается для этого провайдера."
Returned(text, calls, sleeps) ==
    [text |-> text, calls |-> calls, sleeps |-> sleeps, raised |-> FALSE]

get_llm_response(provider, hasClient, outcomes) ==
    IF ~hasClient
    THEN Returned("fallback", 0, 0)
    ELSE LET r == call_methods(provider, outcomes)
         IN  IF r.raised
             THEN Returned("fallback", r.calls, r.sleeps)
             ELSE Returned("model", r.calls, r.sleeps)

\* (a variant: the try/except of lines 340-373 left out)
chat_with_report_unguarded(provider, hasClient, outcome) ==
    IF ~hasClient
    THEN Returned("not_initialized", 0, 0)
    ELSE IF (provider = "gemini" /\ GeminiText(outcome))
             \/ (provider # "gemini" /\ MessageText(outcome))
         THEN Returned("model", 1, 0)
         ELSE [text |-> "", calls |-> 1, sleeps |-> 0, raised |-> TRUE]

\* (a variant: the client test of lines 323-324 left out; the call on None
\* raises inside the try)
chat_with_report_unchecked(provider, hasClient, outcome) ==
    IF ~hasClient
    THEN Returned("apology", 0, 0)
    ELSE IF (provider = "gemini" /\ GeminiText(outcome))
             \/ (provider # "gemini" /\ MessageText(outcome))
         THEN Returned("model", 1, 0)
         ELSE Returned("apology", 1, 0)

chat_with_report(provider, hasClient, outcome) ==
    IF ~hasClient
    THEN Returned("not_initialized", 0, 0)
    ELSE IF provider \in {"openai", "perplexity", "groq"}
         THEN Returned(IF MessageText(outcome) THEN "model" ELSE "apology", 1, 0)
         ELSE IF provider = "gemini"
              THEN Returned(IF GeminiText(outcome) THEN "model" ELSE "apology", 1, 0)
              ELSE Returned("unsupported", 0, 0)

\* _fallback_response: the name the fallback text is made for (line 389)
FallbackName(user_info) == IF "name" \in DOMAIN user_info THEN user_info.name ELSE "default_name"

\* (a variant: the `if not key: return` of the _init_* methods left out)
InitClientNoKeyCheck(provider, hasKey, o) ==
    IF provider = "openai" THEN MessageText(o) ELSE o = "ok"

\* ModelProcessor.__init__ with its _init_* method: whether self.client ends up
\* truthy. Without the key the method returns at once; with it, the client is
\* built (o: the constructor or, for openai, the test request) and, for openai,
\* the test response is read.
InitClient(provider, hasKey, o) ==
    /\ hasKey
    /\ IF provider = "openai" THEN MessageText(o) ELSE o = "ok"

\* SDK calls made by __init__: the openai test request, when the key is there
InitCalls(provider, hasKey) == IF provider = "openai" /\ hasKey THEN 1 ELSE 0

(***************************************************************************)
(* main.py: the session limiter                                            *)
(***************************************************************************)
\* (a variant: a record kept for two TTLs)
ExpiredAfterTwoTTL(entry, t) == t - entry.last_seen > 2 * SESSION_TTL

\* (a variant: a record expires when it is exactly SESSION_TTL old)
ExpiredAtTTL(entry, t) == t - entry.last_seen >= SESSION_TTL

\* line 317
Expired(entry, t) == t - entry.last_seen > SESSION_TTL

\* _cleanup_sessions at time t: the map without its expired records
_cleanup_sessions(sc, t) ==
    [s \in {x \in DOMAIN sc : ~Expired(sc[x], t)} |-> sc[s]]

\* (a variant: line 331 left out, last_seen stays as it was set at creation)
_increment_session_stale(sc, sid, t) ==
    LET entry == IF sid \in DOMAIN sc THEN sc[sid] ELSE [count |-> 0, last_seen |-> t]
    IN  [s \in DOMAIN sc \cup {sid} |->
            IF s = sid THEN [count |-> entry.count + 1, last_seen |-> entry.last_seen]
            ELSE sc[s]]

\* _increment_session at time t: the map after the call
_increment_session(sc, sid, t) ==
    LET entry == IF sid \in DOMAIN sc THEN sc[sid] ELSE [count |-> 0, last_seen |-> t]
    IN  [s \in DOMAIN sc \cup {sid} |->
            IF s = sid THEN [count |-> entry.count + 1, last_seen |-> t] ELSE sc[s]]

_get_session_count(sc, sid) == IF sid \in DOMAIN sc THEN sc[sid].count ELSE 0

NoSessions == [s \in {} |-> [count |-> 0, last_seen |-> 0]]

(***************************************************************************)
(* main.py: module-level startup (lines 84-96)                              *)
(***************************************************************************)
IdleSlot == [pc |-> "idle", session_id |-> "", current_count |-> 0, new_count |-> 0,
             nth |-> 0]
NoResp == [endpoint |-> "none"]
NoRet == [op |-> "none"]
IdleWorker == [pc |-> "idle", session_id |-> "", now |-> 0, count |-> 0, ret |-> 0]
gatewayVars == <<envVars, bootVars, loopVars, ret>>


\* The state every specification starts from, apart from the environment.
Quiet ==
    /\ LLM_AVAILABLE = FALSE
    /\ ai_manager = FALSE
    /\ client = FALSE
    /\ inits = 0
    /\ _session_counters = NoSessions
    /\ _session_lock = 0
    /\ now = 0
    /\ ticks = 0
    /\ running = NoSlot
    /\ slot = [r \in Slots |-> IdleSlot]
    /\ resp = NoResp
    /\ asked = [s \in Sessions |-> 0]
    /\ dispatched = [s \in Sessions |-> 0]
    /\ removed = [s \in Sessions |-> "no"]
    /\ ret = NoRet
    /\ worker = [w \in Workers |-> IdleWorker]
    /\ swept = FALSE

\* the environment the process starts in
Env ==
    /\ LLM_PROVIDER \in ProviderTags
    /\ credential \in BOOLEAN

\* /chat never reads PGD_AVAILABLE: the chat gateway is followed without the
\* PGD engine, the report gateway with and without it.
Init ==
    /\ phase = "boot"
    /\ Env
    /\ PGD_AVAILABLE = FALSE
    /\ Quiet

InitReport ==
    /\ phase = "boot"
    /\ Env
    /\ PGD_AVAILABLE \in BOOLEAN
    /\ Quiet

\* `ai_manager = ModelProcessor()` and the test of its client. A provider tag
\* LLMConfig does not know leaves the config without model_name, the
\* constructor raises, and ai_manager stays None.
Startup(o) ==
    /\ phase = "boot"
    /\ phase' = "serving"
    /\ inits' = inits + 1
    /\ IF LLM_PROVIDER \in Providers
       THEN /\ ai_manager' = TRUE
            /\ client' = InitClient(LLM_PROVIDER, credential, o)
            /\ LLM_AVAILABLE' = client'
       ELSE /\ ai_manager' = FALSE
            /\ client' = FALSE
            /\ LLM_AVAILABLE' = FALSE
    /\ resp' = NoResp
    /\ UNCHANGED <<envVars, _session_counters, _session_lock, clockVars, running, slot,
                   asked, dispatched, removed, ret, worker, swept>>

\* Time passes: the clock is followed a whole TTL at a time, so that a record
\* is seen at the ages 0, SESSION_TTL (not yet expired) and beyond.
Tick ==
    /\ phase = "serving"
    /\ ticks < MaxTicks
    /\ now' = now + SESSION_TTL
    /\ ticks' = ticks + 1
    /\ resp' = NoResp
    /\ UNCHANGED <<envVars, bootVars, _session_counters, _session_lock, running, slot,
                   asked, dispatched, removed, ret, worker, swept>>

(***************************************************************************)
(* main.py: /chat (lines 341-400)                                          *)
(*                                                                         *)
(* The handlers are `async def`: each runs as a coroutine of the one event *)
(* loop and gives the loop up only at an await.  The body of chat is cut   *)
(* into its steps; Suspends says before which of them the coroutine awaits.*)
(***************************************************************************)
\* (a variant: an await between the quota check and the increment)
SuspendsBeforeIncrement(pc) == pc = "increment"

\* chat awaits nowhere: _cleanup_sessions, _get_session_count,
\* _increment_session and chat_with_report are plain calls.
Suspends(pc) == FALSE

\* the slot that holds the loop after slot r has moved to pc
Holder(r, pc) == IF pc = "idle" \/ Suspends(pc) THEN NoSlot ELSE r

\* a new coroutine takes the first slot that holds none
FreeSlot ==
    IF \A r \in Slots : slot[r].pc # "idle"
    THEN NoSlot
    ELSE CHOOSE r \in Slots : slot[r].pc = "idle" /\ \A q \in 1..(r - 1) : slot[q].pc # "idle"

\* slot r may take its next step
CanRun(r) == running = r \/ (running = NoSlot /\ slot[r].pc # "idle")

\* (a variant: the availability test left out)
UnavailableNever == FALSE

\* line 359
Unavailable == ~LLM_AVAILABLE \/ ~ai_manager \/ ~client

\* (a variant: > for >=)
QuotaExceededOffByOne(current_count) == current_count > MAX_QUESTIONS

\* line 363
QuotaExceeded(current_count) == current_count >= MAX_QUESTIONS

\* The counters of the sessions whose records a sweep removed start again.
Forget(counter, before, after) ==
    [s \in Sessions |-> IF s \in DOMAIN before /\ s \notin DOMAIN after
                        THEN 0 ELSE counter[s]]

\* removed, after a sweep has turned the map sc into the map after
Removed(sc, after) ==
    [s \in Sessions |->
        IF s \in DOMAIN sc /\ s \notin DOMAIN after
        THEN IF sc[s].count = MAX_QUESTIONS
             THEN IF asked[s] > MAX_QUESTIONS THEN "refused" ELSE "full"
             ELSE "yes"
        ELSE removed[s]]

\* lines 345-360: the sweep, the session id and the availability test. A request
\* that waits for the loop has no state of its own: its coroutine starts here,
\* in the first free slot, once no other coroutine holds the loop. sid is the
\* session id lines 350-357 resolve (from the X-Session-Id header, the user
\* name, or the caller's address and the minute).
ChatStart(r, sid) ==
    /\ phase = "serving"
    /\ running = NoSlot
    /\ r = FreeSlot
    /\ asked[sid] < MAX_QUESTIONS + MaxRefused
    /\ LET sc == _cleanup_sessions(_session_counters, now)
       IN  /\ _session_counters' = sc
           /\ asked' = Forget(asked, _session_counters, sc)
           /\ dispatched' = Forget(dispatched, _session_counters, sc)
           /\ removed' = Removed(_session_counters, sc)
    /\ IF Unavailable
       THEN /\ resp' = [endpoint |-> "chat", session |-> sid, nth |-> 0,
                        dispatch |-> FALSE, calls |-> 0,
                        body |-> [reply |-> "unavailable"]]
            /\ UNCHANGED <<slot, running>>
       ELSE /\ slot' = [slot EXCEPT ![r] = [IdleSlot EXCEPT !.pc = "check",
                                                           !.session_id = sid]]
            /\ running' = Holder(r, "check")
            /\ resp' = NoResp
    /\ UNCHANGED <<envVars, bootVars, _session_lock, clockVars, ret, worker, swept>>

\* (a variant: the refused request refreshes last_seen of its session)
ChatCheckRefreshes(r) ==
    /\ slot[r].pc = "check"
    /\ CanRun(r)
    /\ LET sid == slot[r].session_id
           current_count == _get_session_count(_session_counters, sid)
           nth == asked[sid] + 1
       IN  /\ asked' = [asked EXCEPT ![sid] = nth]
           /\ IF QuotaExceeded(current_count)
              THEN /\ resp' = [endpoint |-> "chat", session |-> sid, nth |-> nth,
                               dispatch |-> FALSE, calls |-> 0,
                               body |-> [reply |-> "limit", session_id |-> sid,
                                         questions_used |-> current_count,
                                         limit |-> MAX_QUESTIONS]]
                   /\ slot' = [slot EXCEPT ![r] = IdleSlot]
                   /\ running' = NoSlot
                   /\ _session_counters' =
                          [_session_counters EXCEPT ![sid].last_seen = now]
              ELSE /\ slot' = [slot EXCEPT ![r].pc = "increment",
                                           ![r].current_count = current_count,
                                           ![r].nth = nth]
                   /\ running' = Holder(r, "increment")
                   /\ resp' = NoResp
                   /\ UNCHANGED _session_counters
    /\ UNCHANGED <<envVars, bootVars, _session_lock, clockVars,
                   dispatched, removed, ret, worker, swept>>

\* lines 362-372: the quota check
ChatCheck(r) ==
    /\ slot[r].pc = "check"
    /\ CanRun(r)
    /\ LET sid == slot[r].session_id
           current_count == _get_session_count(_session_counters, sid)
           nth == asked[sid] + 1
       IN  /\ asked' = [asked EXCEPT ![sid] = nth]
           /\ IF QuotaExceeded(current_count)
              THEN /\ resp' = [endpoint |-> "chat", session |-> sid, nth |-> nth,
                               dispatch |-> FALSE, calls |-> 0,
                               body |-> [reply |-> "limit", session_id |-> sid,
                                         questions_used |-> current_count,
                                         limit |-> MAX_QUESTIONS]]
                   /\ slot' = [slot EXCEPT ![r] = IdleSlot]
                   /\ running' = NoSlot
              ELSE /\ slot' = [slot EXCEPT ![r].pc = "increment",
                                           ![r].current_count = current_count,
                                           ![r].nth = nth]
                   /\ running' = Holder(r, "increment")
                   /\ resp' = NoResp
    /\ UNCHANGED <<envVars, bootVars, _session_counters, _session_lock, clockVars,
                   dispatched, removed, ret, worker, swept>>

\* line 381
ChatIncrement(r) ==
    /\ slot[r].pc = "increment"
    /\ CanRun(r)
    /\ LET sid == slot[r].session_id
           sc == _increment_session(_session_counters, sid, now)
       IN  /\ _session_counters' = sc
           /\ slot' = [slot EXCEPT ![r].pc = "dispatch",
                                   ![r].new_count = sc[sid].count]
    /\ running' = Holder(r, "dispatch")
    /\ resp' = NoResp
    /\ UNCHANGED <<envVars, bootVars, _session_lock, clockVars, asked,
                   dispatched, removed, ret, worker, swept>>

\* lines 383-397: ai_manager has chat_with_report, which returns a string
\* whatever the backend does, so the handler's own except is never entered.
ChatDispatch(r, outcome) ==
    /\ slot[r].pc = "dispatch"
    /\ CanRun(r)
    /\ LET sid == slot[r].session_id
           reply == chat_with_report(LLM_PROVIDER, client, outcome)
       IN  /\ dispatched' = [dispatched EXCEPT ![sid] = @ + 1]
           /\ resp' = [endpoint |-> "chat", session |-> sid, nth |-> slot[r].nth,
                       dispatch |-> TRUE, calls |-> reply.calls,
                       body |-> [reply |-> reply.text, session_id |-> sid,
                                 questions_used |-> slot[r].new_count,
                                 limit |-> MAX_QUESTIONS]]
    /\ slot' = [slot EXCEPT ![r] = IdleSlot]
    /\ running' = NoSlot
    /\ UNCHANGED <<envVars, bootVars, _session_counters, _session_lock, clockVars,
                   asked, removed, ret, worker, swept>>

(***************************************************************************)
(* main.py: /analyze_personality (lines 165-298), /extended_analysis       *)
(* (408-439) and /health (674-681).  None of them awaits: each is one step *)
(* of the loop.                                                            *)
(***************************************************************************)
\* outcomes of the SDK calls one report may make, attempt by attempt
OutcomeSeqs == [1..attempts -> Outcomes]

\* display_text: what it is made of and, for a local summary, the sections in it
\*   "model" / "fallback"     the string get_llm_response returned
\*   "summary_temporary"      "LLM временно недоступен. Ниже ..." + the summary parts
\*   "summary_unavailable"    "LLM недоступен. Ниже ..." + the summary parts
Display(kind, parts) == [kind |-> kind, parts |-> parts]

\* the dict of lines 283-294
Report(display, llm_report, parts) ==
    [display_text |-> display, llm_report |-> llm_report, raw_pgd |-> parts,
     pgd_available |-> PGD_AVAILABLE, llm_available |-> LLM_AVAILABLE]

\* pgd: what the PGD engine did (it returned the points, returned an error
\* string, or raised); parts: the sections of its result that are not empty.
analyze_personality(pgd, parts, outcomes) ==
    IF ~PGD_AVAILABLE
    THEN [endpoint |-> "analyze", calls |-> 0, body |-> [error |-> "pgd_unavailable"]]
    ELSE IF pgd = "raise"
    THEN [endpoint |-> "analyze", calls |-> 0, body |-> [error |-> "exception"]]
    ELSE IF pgd = "str"
    THEN [endpoint |-> "analyze", calls |-> 0, body |-> [error |-> "points"]]
    ELSE IF LLM_AVAILABLE /\ ai_manager /\ client
    THEN LET r == get_llm_response(LLM_PROVIDER, client, outcomes)
         IN  [endpoint |-> "analyze", outcomes |-> outcomes, calls |-> r.calls,
              body |-> IF r.raised
                       THEN Report(Display("summary_temporary", parts), "", parts)
                       ELSE Report(Display(r.text, {}), r.text, parts)]
    ELSE [endpoint |-> "analyze", outcomes |-> outcomes, calls |-> 0,
          body |-> Report(Display("summary_unavailable", parts), "", parts)]

Analyze(pgd, parts, outcomes) ==
    /\ phase = "serving"
    /\ running = NoSlot
    /\ resp' = analyze_personality(pgd, parts, outcomes)
    /\ UNCHANGED <<envVars, bootVars, _session_counters, _session_lock, clockVars,
                   running, slot, asked, dispatched, removed, ret, worker, swept>>

\* ai_manager has no generate_recommendations, and get_llm_response(prompt)
\* lacks an argument: the TypeError is caught at line 435.
extended_analysis ==
    IF Unavailable
    THEN [endpoint |-> "extended", calls |-> 0, body |-> [extended |-> "unavailable"]]
    ELSE [endpoint |-> "extended", calls |-> 0, body |-> [error |-> "exception"]]

ExtendedAnalysis ==
    /\ phase = "serving"
    /\ running = NoSlot
    /\ resp' = extended_analysis
    /\ UNCHANGED <<envVars, bootVars, _session_counters, _session_lock, clockVars,
                   running, slot, asked, dispatched, removed, ret, worker, swept>>

health ==
    [endpoint |-> "health",
     body |-> [status |-> "ok", pgd_available |-> PGD_AVAILABLE,
               llm_available |-> LLM_AVAILABLE]]

Health ==
    /\ phase = "serving"
    /\ running = NoSlot
    /\ resp' = health
    /\ UNCHANGED <<envVars, bootVars, _session_counters, _session_lock, clockVars,
                   running, slot, asked, dispatched, removed, ret, worker, swept>>

\* The gateway serving /chat.
Next ==
    \/ \E o \in Outcomes : Startup(o)
    \/ Tick
    \/ \E r \in Slots, sid \in Sessions : ChatStart(r, sid)
    \/ \E r \in Slots : ChatCheck(r)
    \/ \E r \in Slots : ChatIncrement(r)
    \/ \E r \in Slots, o \in Outcomes : ChatDispatch(r, o)

Spec == Init /\ [][Next]_vars

\* The gateway serving the /chat requests of one session.
NextOne ==
    \/ \E o \in Outcomes : Startup(o)
    \/ Tick
    \/ \E r \in Slots, sid \in OneSession : ChatStart(r, sid)
    \/ \E r \in Slots : ChatCheck(r)
    \/ \E r \in Slots : ChatIncrement(r)
    \/ \E r \in Slots, o \in Outcomes : ChatDispatch(r, o)

SpecOne == Init /\ [][NextOne]_vars

\* what the PGD engine gives one report request: its points with the sections
\* that are not empty and the outcomes of the SDK calls, or no points
NoOutcomes == [i \in 1..attempts |-> "error"]
ReportInputs ==
    {<<"dict", parts, outcomes>> : parts \in SUBSET Sections, outcomes \in OutcomeSeqs}
        \cup {<<pgd, {}, NoOutcomes>> : pgd \in {"str", "raise"}}

\* The gateway serving every endpoint, its /chat requests all of one session.
NextReport ==
    \/ \E o \in Outcomes : Startup(o)
    \/ \E in \in ReportInputs : Analyze(in[1], in[2], in[3])
    \/ ExtendedAnalysis
    \/ Health
    \/ \E r \in Slots, sid \in OneSession : ChatStart(r, sid)
    \/ \E r \in Slots : ChatCheck(r)
    \/ \E r \in Slots : ChatIncrement(r)
    \/ \E r \in Slots, o \in Outcomes : ChatDispatch(r, o)

SpecReport == InitReport /\ [][NextReport]_vars

(***************************************************************************)
(* main.py: _increment_session (lines 323-332) and _cleanup_sessions       *)
(* (311-320) called from several threads.  Each thread makes one call of   *)
(* _increment_session, taken a statement at a time; `entry["count"] += 1`  *)
(* is a read and a write.                                                  *)
(***************************************************************************)
InitInc ==
    /\ phase = "serving"
    /\ LLM_PROVIDER = "gemini"
    /\ credential = TRUE
    /\ PGD_AVAILABLE = FALSE
    /\ Quiet

\* (a variant: no lock taken)
LockIgnored(w) == TRUE

\* `with _session_lock:` can be entered by thread w
LockFree(w) == _session_lock = 0

\* line 324: now = time.time(), before the lock is asked for
IncCall(w, sid) ==
    /\ worker[w].pc = "idle"
    /\ worker' = [worker EXCEPT ![w] = [IdleWorker EXCEPT !.pc = "lock",
                                                         !.session_id = sid,
                                                         !.now = now]]
    /\ UNCHANGED <<gatewayVars, _session_counters, _session_lock, clockVars, swept>>

\* line 325
IncAcquire(w) ==
    /\ worker[w].pc = "lock"
    /\ LockFree(w)
    /\ _session_lock' = w
    /\ worker' = [worker EXCEPT ![w].pc = "get"]
    /\ UNCHANGED <<gatewayVars, _session_counters, clockVars, swept>>

\* lines 326-329
IncGet(w) ==
    /\ worker[w].pc = "get"
    /\ LET sid == worker[w].session_id
       IN  _session_counters' =
              IF sid \in DOMAIN _session_counters
              THEN _session_counters
              ELSE [s \in DOMAIN _session_counters \cup {sid} |->
                       IF s = sid THEN [count |-> 0, last_seen |-> worker[w].now]
                       ELSE _session_counters[s]]
    /\ worker' = [worker EXCEPT ![w].pc = "read"]
    /\ UNCHANGED <<gatewayVars, _session_lock, clockVars, swept>>

\* the entry thread w holds: the record of its session id (a record the sweep
\* removed meanwhile is no longer in the map, and is read as it was created)
Entry(w) ==
    IF worker[w].session_id \in DOMAIN _session_counters
    THEN _session_counters[worker[w].session_id]
    ELSE [count |-> 0, last_seen |-> worker[w].now]

\* line 330, the read of entry["count"]
IncRead(w) ==
    /\ worker[w].pc = "read"
    /\ worker' = [worker EXCEPT ![w].pc = "write", ![w].count = Entry(w).count]
    /\ UNCHANGED <<gatewayVars, _session_counters, _session_lock, clockVars, swept>>

\* line 330, the write of entry["count"], and line 331
IncWrite(w) ==
    /\ worker[w].pc = "write"
    /\ LET sid == worker[w].session_id
       IN  _session_counters' =
              IF sid \in DOMAIN _session_counters
              THEN [_session_counters EXCEPT
                       ![sid] = [count |-> worker[w].count + 1,
                                 last_seen |-> worker[w].now]]
              ELSE _session_counters
    /\ worker' = [worker EXCEPT ![w].pc = "return"]
    /\ UNCHANGED <<gatewayVars, _session_lock, clockVars, swept>>

\* line 332: the value is read, the lock is left
IncReturn(w) ==
    /\ worker[w].pc = "return"
    /\ worker' = [worker EXCEPT ![w].pc = "done", ![w].ret = Entry(w).count]
    /\ _session_lock' = IF _session_lock = w THEN 0 ELSE _session_lock
    /\ UNCHANGED <<gatewayVars, _session_counters, clockVars, swept>>

\* _cleanup_sessions called by a thread that is in no other call: the whole
\* body runs under the lock.
Cleanup(w) ==
    /\ worker[w].pc \in {"idle", "done"}
    /\ LockFree(w)
    /\ _session_counters' = _cleanup_sessions(_session_counters, now)
    /\ _session_counters' # _session_counters
    /\ swept' = TRUE
    /\ UNCHANGED <<gatewayVars, _session_lock, clockVars, worker>>

\* the clock of SpecInc
TickInc ==
    /\ ticks < MaxTicks
    /\ now' = now + SESSION_TTL
    /\ ticks' = ticks + 1
    /\ UNCHANGED <<gatewayVars, _session_counters, _session_lock, worker, swept>>

NextInc ==
    \/ \E w \in Workers, sid \in Sessions : IncCall(w, sid)
    \/ \E w \in Workers : IncAcquire(w)
    \/ \E w \in Workers : IncGet(w)
    \/ \E w \in Workers : IncRead(w)
    \/ \E w \in Workers : IncWrite(w)
    \/ \E w \in Workers : IncReturn(w)
    \/ \E w \in Workers : Cleanup(w)
    \/ TickInc

SpecInc == InitInc /\ [][NextInc]_vars

(***************************************************************************)
(* ai_service.py: the public methods of one ModelProcessor called directly,*)
(* on an instance whose client is set or is None.                          *)
(***************************************************************************)
InitProc ==
    /\ phase = "serving"
    /\ LLM_PROVIDER \in Providers
    /\ credential \in BOOLEAN
    /\ PGD_AVAILABLE = FALSE
    /\ Quiet

\* ModelProcessor(): the instance is built
Construct(o) ==
    /\ inits = 0
    /\ inits' = 1
    /\ ai_manager' = TRUE
    /\ client' = InitClient(LLM_PROVIDER, credential, o)
    /\ ret' = NoRet
    /\ UNCHANGED <<envVars, phase, LLM_AVAILABLE, _session_counters, _session_lock,
                   clockVars, loopVars, worker, swept>>

UserInfos == {[name |-> "Anna", dob |-> "01.02.1990"], [dob |-> "01.02.1990"]}

CallReport(user_info, outcomes) ==
    /\ inits = 1
    /\ LET r == get_llm_response(LLM_PROVIDER, client, outcomes)
       IN  ret' = [op |-> "get_llm_response", outcomes |-> outcomes, result |-> r,
                   portrait_for |-> IF r.text = "fallback" THEN FallbackName(user_info)
                                    ELSE ""]
    /\ UNCHANGED <<envVars, bootVars, _session_counters, _session_lock, clockVars,
                   loopVars, worker, swept>>

CallChat(outcome) ==
    /\ inits = 1
    /\ ret' = [op |-> "chat_with_report", outcome |-> outcome,
               result |-> chat_with_report(LLM_PROVIDER, client, outcome)]
    /\ UNCHANGED <<envVars, bootVars, _session_counters, _session_lock, clockVars,
                   loopVars, worker, swept>>

NextProc ==
    \/ \E o \in Outcomes : Construct(o)
    \/ \E u \in UserInfos, outcomes \in OutcomeSeqs : CallReport(u, outcomes)
    \/ \E o \in Outcomes : CallChat(o)

SpecProc == InitProc /\ [][NextProc]_vars

(***************************************************************************)
(* ai_service.py: the functions of ModelProcessor that depend on their     *)
(* arguments only, applied to arguments of bounded size.                   *)
(***************************************************************************)
\* two words with a run of k newlines between them
Separated(k) == <<"a">> \o [i \in 1..k |-> "nl"] \o <<"n">>

\* every text of at most MaxLen characters, two words with a run of newlines
\* between them, and a list marker and a header marker written twice
Texts ==
    UNION {[1..n -> Chars] : n \in 0..MaxLen}
        \cup {Separated(k) : k \in 0..MaxRun}
        \cup {<<"-", "sp", "-", "sp", "a">>, <<"#", "sp", "#", "sp", "a">>}

\* one call is followed from the state before it
CleanMarkdown(text) ==
    /\ ret = NoRet
    /\ ret' = [op |-> "_clean_markdown", text |-> text, out |-> _clean_markdown(text)]
    /\ UNCHANGED <<envVars, bootVars, _session_counters, _session_lock, clockVars,
                   loopVars, worker, swept>>

\* the report of get_llm_response when the SDK call returned the text
\* `response`: lines 262 and 313; the string is returned as it is, with nothing
\* that marks it as a fallback
ReportText(response) ==
    /\ ret = NoRet
    /\ ret' = [op |-> "report_text", response |-> response,
               out |-> _clean_markdown(Strip(response)), fallback |-> FALSE]
    /\ UNCHANGED <<envVars, bootVars, _session_counters, _session_lock, clockVars,
                   loopVars, worker, swept>>

\* str.upper() on a key: a sequence of the characters "a", "b" and "A"
Upper(key) ==
    [i \in 1..Len(key) |-> CASE key[i] = "a" -> "A" [] key[i] = "b" -> "B"
                              [] OTHER -> key[i]]

\* the lines get_llm_response appends for the blocks of pgd_data from the i-th
\* on (lines 295-301). pgd_data: its items in order, each a key with a dict
\* (its own items in order) or another value.
RECURSIVE BlockLines(_, _)
BlockLines(pgd_data, i) ==
    IF i > Len(pgd_data) THEN <<>>
    ELSE LET block_name == pgd_data[i].key
             block_value == pgd_data[i].value
         IN  <<[line |-> "block", name |-> Upper(block_name)]>>
                 \o (IF block_value.dict
                     THEN [j \in 1..Len(block_value.items) |->
                              [line |-> "item", k |-> block_value.items[j]]]
                     ELSE <<[line |-> "value"]>>)
                 \o BlockLines(pgd_data, i + 1)

\* the lines of pgd_text (lines 287-303)
PromptLines(pgd_data, user_info) ==
    <<[line |-> "name", name |-> FallbackName(user_info)]>>
        \o (IF "dob" \in DOMAIN user_info THEN <<[line |-> "dob"]>> ELSE <<>>)
        \o (IF "gender" \in DOMAIN user_info THEN <<[line |-> "gender"]>> ELSE <<>>)
        \o <<[line |-> "matrix"]>>
        \o BlockLines(pgd_data, 1)

\* the payloads followed: at most MaxBlocks blocks with different keys, each a
\* dict of at most one item or a plain value
BlockKeys == {<<"a">>, <<"A">>, <<"b", "A">>}
BlockValues == {[dict |-> TRUE, items |-> <<>>], [dict |-> TRUE, items |-> <<"k">>],
                [dict |-> FALSE, items |-> <<>>]}
Payloads ==
    {p \in UNION {[1..n -> [key : BlockKeys, value : BlockValues]] : n \in 0..MaxBlocks} :
        \A i, j \in 1..Len(p) : p[i].key = p[j].key => i = j}

BuildPrompt(pgd_data, user_info) ==
    /\ ret = NoRet
    /\ ret' = [op |-> "pgd_text", pgd_data |-> pgd_data,
               lines |-> PromptLines(pgd_data, user_info)]
    /\ UNCHANGED <<envVars, bootVars, _session_counters, _session_lock, clockVars,
                   loopVars, worker, swept>>

\* _call_openai on an instance that has a client
CallOpenAI(outcomes) ==
    /\ ret = NoRet
    /\ ret' = [op |-> "_call_openai", outcomes |-> outcomes,
               result |-> _call_openai(outcomes),
               events |-> OpenAIEvents(0, outcomes)]
    /\ UNCHANGED <<envVars, bootVars, _session_counters, _session_lock, clockVars,
                   loopVars, worker, swept>>

\* the arguments LLMConfig is built with, and the environment it reads
ModelArgs == {{}, {<<>>}, {Gpt4o}, {O1}, {O3Mini}}
TemperatureArgs == {{}, {0}, {5}}
TokenArgs == {{}, {0}, {100}}
Environments ==
    [model : {{}, {O1}}, temperature : {{}, {3}}, max_completion_tokens : {{}, {200}}]

\* LLMConfig(...) is built and, when ModelProcessor can be built on it, the
\* keyword arguments of its SDK calls are taken
Configure(provider, model_name, temperature, max_completion_tokens, env) ==
    /\ ret = NoRet
    /\ LET config == LLMConfig(provider, model_name, temperature,
                               max_completion_tokens, env)
       IN  ret' = IF provider \in Providers
                  THEN [op |-> "LLMConfig", temperature_arg |-> temperature,
                        config |-> config,
                        calls |-> (IF provider = "openai"
                                   THEN [ping |-> PingArgs(config)] ELSE NoArgs)
                                  @@ [report |-> ReportArgs(config),
                                      chat |-> ChatArgs(config)]]
                  ELSE [op |-> "LLMConfig", temperature_arg |-> temperature,
                        config |-> config, calls |-> NoArgs]
    /\ UNCHANGED <<envVars, bootVars, _session_counters, _session_lock, clockVars,
                   loopVars, worker, swept>>

NextPure ==
    \/ \E text \in Texts : CleanMarkdown(text)
    \/ \E provider \in ProviderTags, m \in ModelArgs, t \in TemperatureArgs,
          k \in TokenArgs, env \in Environments : Configure(provider, m, t, k, env)
    \/ \E pgd_data \in Payloads, u \in UserInfos : BuildPrompt(pgd_data, u)
    \/ \E outcomes \in OutcomeSeqs : CallOpenAI(outcomes)
    \/ \E text \in Texts : ReportText(text)

SpecPure == InitInc /\ [][NextPure]_vars

(***************************************************************************)
(* The gateway with the SDK call of a request taken as a step of its own:  *)
(* the call returns, raises, or, when nothing bounds it, never comes back. *)
(* The handlers are coroutines that call the SDK synchronously, so the     *)
(* event loop is held for as long as the call lasts.                       *)
(***************************************************************************)
\* self.config of ModelProcessor.__init__: LLMConfig(provider=self.provider) in
\* an environment that sets none of the optional variables
ProcessorConfig(provider) ==
    LLMConfig(provider, {}, {}, {},
              [model |-> {}, temperature |-> {}, max_completion_tokens |-> {}])

\* the call is given a time limit
TimeoutArg(args) == "timeout" \in DOMAIN args \/ "request_options" \in DOMAIN args

\* the SDK call of chat_with_report never returns
ChatStall(r) ==
    /\ slot[r].pc = "dispatch"
    /\ CanRun(r)
    /\ ~TimeoutArg(ChatArgs(ProcessorConfig(LLM_PROVIDER)))
    /\ slot' = [slot EXCEPT ![r].pc = "stalled"]
    /\ running' = r
    /\ resp' = NoResp
    /\ UNCHANGED <<envVars, bootVars, _session_counters, _session_lock, clockVars,
                   asked, dispatched, removed, ret, worker, swept>>

\* /analyze_personality up to its call of get_llm_response (main.py 166-207),
\* for a request that gets that far
ReportStart(r) ==
    /\ phase = "serving"
    /\ running = NoSlot
    /\ r = FreeSlot
    /\ PGD_AVAILABLE
    /\ LLM_AVAILABLE /\ ai_manager /\ client
    /\ slot' = [slot EXCEPT ![r] = [IdleSlot EXCEPT !.pc = "report"]]
    /\ running' = r
    /\ resp' = NoResp
    /\ UNCHANGED <<envVars, bootVars, _session_counters, _session_lock, clockVars,
                   asked, dispatched, removed, ret, worker, swept>>

\* the SDK calls of the report return or raise, and the response is built
ReportReturn(r, parts, outcomes) ==
    /\ slot[r].pc = "report"
    /\ running = r
    /\ resp' = analyze_personality("dict", parts, outcomes)
    /\ slot' = [slot EXCEPT ![r] = IdleSlot]
    /\ running' = NoSlot
    /\ UNCHANGED <<envVars, bootVars, _session_counters, _session_lock, clockVars,
                   asked, dispatched, removed, ret, worker, swept>>

\* an SDK call of the report never returns
ReportStall(r) ==
    /\ slot[r].pc = "report"
    /\ running = r
    /\ ~TimeoutArg(ReportArgs(ProcessorConfig(LLM_PROVIDER)))
    /\ slot' = [slot EXCEPT ![r].pc = "stalled"]
    /\ resp' = NoResp
    /\ UNCHANGED <<envVars, bootVars, _session_counters, _session_lock, clockVars,
                   running, asked, dispatched, removed, ret, worker, swept>>

\* the steps a request in progress takes by itself
Progress ==
    \/ \E r \in Slots : ChatCheck(r)
    \/ \E r \in Slots : ChatIncrement(r)
    \/ \E r \in Slots, o \in Outcomes : ChatDispatch(r, o)
    \/ \E r \in Slots : ChatStall(r)
    \/ \E r \in Slots, parts \in SUBSET Sections, outcomes \in OutcomeSeqs :
          ReportReturn(r, parts, outcomes)
    \/ \E r \in Slots : ReportStall(r)

NextStall ==
    \/ \E o \in Outcomes : Startup(o)
    \/ \E r \in Slots, sid \in OneSession : ChatStart(r, sid)
    \/ \E r \in Slots : ReportStart(r)
    \/ Progress

\* the event loop runs a request that can take a step
SpecStall == InitReport /\ [][NextStall]_vars /\ WF_vars(Progress)

(***************************************************************************)
(* The claims                                                              *)
(***************************************************************************)
Count(s) == _get_session_count(_session_counters, s)
CountAfter(s) == _get_session_count(_session_counters', s)

\* the response just returned is that of a /chat request that reached the quota
\* check
ChatAnswered == resp.endpoint = "chat" /\ resp.nth > 0

\* C1: with the provider available and no expiry in between, the k-th /chat
\* request of a session is dispatched to the model and reports questions_used = k
\* for k = 1..15; every later one gets the limit-reached reply with
\* questions_used = 15 and limit = 15, is not dispatched, and the stored count
\* stays 15.
C1_SequentialQuota ==
    ChatAnswered =>
        IF resp.nth <= MAX_QUESTIONS
        THEN /\ resp.dispatch
             /\ resp.calls = 1
             /\ resp.body.reply \in {"model", "apology"}
             /\ resp.body.questions_used = resp.nth
             /\ resp.body.limit = MAX_QUESTIONS
        ELSE /\ ~resp.dispatch
             /\ resp.calls = 0
             /\ resp.body.reply = "limit"
             /\ resp.body.questions_used = MAX_QUESTIONS
             /\ resp.body.limit = MAX_QUESTIONS
             /\ Count(resp.session) = MAX_QUESTIONS

\* the 16th request of a session has just been refused
C1_Witness ==
    /\ ChatAnswered
    /\ resp.nth = MAX_QUESTIONS + 1
    /\ resp.body.reply = "limit"

\* C2: whatever the order in which the requests of a session are served, its
\* stored count never exceeds MAX_QUESTIONS, and at most MAX_QUESTIONS of its
\* requests are dispatched to the model while its record lives.
C2_QuotaNeverExceeded ==
    \A s \in Sessions :
        /\ Count(s) <= MAX_QUESTIONS
        /\ dispatched[s] <= MAX_QUESTIONS

\* more than MAX_QUESTIONS + 1 requests of a session were served, MAX_QUESTIONS
\* of them were dispatched, and the last has just been refused
C2_Witness ==
    \E s \in Sessions :
        /\ dispatched[s] = MAX_QUESTIONS
        /\ Count(s) = MAX_QUESTIONS
        /\ ChatAnswered
        /\ resp.session = s
        /\ resp.nth > MAX_QUESTIONS + 1
        /\ ~resp.dispatch

\* the step is the sweep at the head of a /chat request
SweepStep ==
    \/ \E r \in Slots : slot[r].pc = "idle" /\ slot'[r].pc = "check"
    \/ resp'.endpoint = "chat" /\ resp'.nth = 0

\* C4: a record whose last_seen is more than SESSION_TTL before a sweep is absent
\* after it, whatever its count; and the next /chat request of that session id
\* is dispatched and reports questions_used = 1.
C4_ExpiredSwept ==
    [][/\ SweepStep =>
            \A s \in DOMAIN _session_counters :
                now - _session_counters[s].last_seen > SESSION_TTL
                    => s \notin DOMAIN _session_counters'
       /\ (resp'.endpoint = "chat" /\ resp'.nth = 1 /\ removed'[resp'.session] # "no")
            => /\ resp'.dispatch
               /\ resp'.body.questions_used = 1
               /\ CountAfter(resp'.session) = 1]_vars

\* a session whose record held MAX_QUESTIONS was swept and has just been served
\* again
C4_Witness ==
    /\ resp.endpoint = "chat"
    /\ resp.nth = 1
    /\ removed[resp.session] = "full"
    /\ resp.body.questions_used = 1

\* C5: a session's count goes up only in the step of a request that has passed
\* the availability test and the quota check, and that step is followed at once
\* by the dispatch; a request that returns without dispatch has raised no count.
C5_IncrementOnlyBeforeDispatch ==
    [][/\ \A s \in Sessions :
            CountAfter(s) > Count(s) =>
                \E r \in Slots :
                    /\ slot[r].pc = "increment"
                    /\ slot[r].session_id = s
                    /\ slot[r].current_count < MAX_QUESTIONS
                    /\ LLM_AVAILABLE /\ client
                    /\ CountAfter(s) = Count(s) + 1
                    /\ slot'[r].pc = "dispatch"
       /\ \A r \in Slots :
            slot[r].pc = "dispatch" =>
                \/ slot'[r] = slot[r]
                \/ /\ resp'.endpoint = "chat"
                   /\ resp'.dispatch
                   /\ resp'.session = slot[r].session_id
                   /\ _session_counters' = _session_counters
       /\ (resp'.endpoint = "chat" /\ ~resp'.dispatch) =>
            \A s \in Sessions : CountAfter(s) <= Count(s)]_vars

\* the 15th question of a session has been counted and its model call is out
C5_Witness ==
    \E r \in Slots :
        /\ slot[r].pc = "dispatch"
        /\ slot[r].new_count = MAX_QUESTIONS
        /\ Count(slot[r].session_id) = MAX_QUESTIONS

\* the threads whose call of _increment_session for s has returned
Returned_(s) == {w \in Workers : worker[w].pc = "done" /\ worker[w].session_id = s}

\* every thread is outside _increment_session
Quiescent == \A w \in Workers : worker[w].pc \in {"idle", "done"}

\* C3: when N threads have called _increment_session for one session id, starting
\* from an absent record, and no sweep has removed a record, the stored count
\* is N and the N calls returned the values 1..N.
C3_NoLostUpdate ==
    (Quiescent /\ ~swept) =>
        \A s \in Sessions :
            /\ Count(s) = Cardinality(Returned_(s))
            /\ {worker[w].ret : w \in Returned_(s)} = 1..Cardinality(Returned_(s))

\* every thread has incremented the same session
C3_Witness ==
    /\ ~swept
    /\ \E s \in Sessions :
          /\ Returned_(s) = Workers
          /\ Count(s) = NumWorkers

\* the SDK call fails on every attempt but the last
FailFailOk == [i \in 1..attempts |-> IF i < attempts THEN "error" ELSE "ok"]

\* C6 (the claim as stated): for every provider kind a report makes up to 3
\* attempts: when the SDK call fails on the first and second attempt and succeeds
\* on the third, get_llm_response returns the model's text, and no report makes
\* more than 3 SDK calls.
C6_RetryEveryProvider ==
    (ret.op = "get_llm_response" /\ client) =>
        /\ ret.result.calls <= attempts
        /\ ret.outcomes = FailFailOk => ret.result.text = "model"

\* C8: chat_with_report on an initialized instance makes exactly one SDK call,
\* raises nothing, and answers the apology string whenever that call fails.
C8_ChatSingleAttempt ==
    (ret.op = "chat_with_report" /\ client) =>
        /\ ret.result.calls = 1
        /\ ~ret.result.raised
        /\ ret.result.text \in {"model", "apology"}
        /\ ret.outcome = "error" => ret.result.text = "apology"

\* a chat call whose SDK call raised was answered with the apology
C8_Witness ==
    /\ ret.op = "chat_with_report"
    /\ client
    /\ ret.outcome = "error"
    /\ ret.result.text = "apology"
    /\ ret.result.calls = 1

\* C9: on an instance without a client, get_llm_response returns the fallback
\* text and chat_with_report the not-initialized message, neither raises and
\* neither makes an SDK call.
C9_UnavailableByValue ==
    (ret.op # "none" /\ ~client) =>
        /\ ret.result.calls = 0
        /\ ~ret.result.raised
        /\ ret.op = "get_llm_response" => ret.result.text = "fallback"
        /\ ret.op = "chat_with_report" => ret.result.text = "not_initialized"

\* chat_with_report was called on an instance without a client
C9_Witness ==
    /\ ~client
    /\ ret.op = "chat_with_report"
    /\ ret.result.text = "not_initialized"

\* C7 (the claim as stated): when every attempt of a report fails, the
\* response of /analyze_personality is marked degraded (llm_available false) and
\* its display_text is the local summary of the payload sections.
C7_AllAttemptsFailDegraded ==
    (/\ resp.endpoint = "analyze"
     /\ "display_text" \in DOMAIN resp.body
     /\ LLM_AVAILABLE /\ client
     /\ resp.outcomes = NoOutcomes) =>
        /\ ~resp.body.llm_available
        /\ resp.body.display_text.kind \in {"summary_temporary", "summary_unavailable"}
        /\ resp.body.display_text.parts = resp.body.raw_pgd

\* C10: the provider is initialized at most once, and when its credential is
\* absent the gateway is unavailable in every state after startup: /health says
\* llm_available false, /chat answers the unavailable reply without dispatch,
\* a report is the local summary marked llm_available false, and no request
\* makes an SDK call.
C10_NoCredentialUnavailable ==
    /\ inits <= 1
    /\ (phase = "serving" /\ ~credential) =>
        /\ ~LLM_AVAILABLE
        /\ resp.endpoint = "health" => ~resp.body.llm_available
        /\ resp.endpoint = "chat" =>
              /\ resp.body = [reply |-> "unavailable"]
              /\ ~resp.dispatch
              /\ resp.calls = 0
        /\ resp.endpoint = "analyze" =>
              /\ resp.calls = 0
              /\ "display_text" \in DOMAIN resp.body =>
                    /\ resp.body.display_text.kind = "summary_unavailable"
                    /\ resp.body.llm_report = ""
                    /\ ~resp.body.llm_available
        /\ resp.endpoint = "extended" =>
              /\ resp.calls = 0
              /\ resp.body = [extended |-> "unavailable"]

\* a report was asked for, with the PGD engine working and no credential
C10_Witness ==
    /\ ~credential
    /\ LLM_PROVIDER \in Providers
    /\ resp.endpoint = "analyze"
    /\ "display_text" \in DOMAIN resp.body
    /\ resp.body.display_text.kind = "summary_unavailable"

\* C11 (the claim as stated): _clean_markdown is idempotent: cleaning its own
\* output changes nothing.
C11_CleanIdempotent ==
    ret.op = "_clean_markdown" => _clean_markdown(ret.out) = ret.out

\* the markup delimiter characters
Delimiters == {"#", "*", "bt"}

\* C12 (the claim as stated): the text a report returns holds none of the markup
\* delimiter characters, or the result is marked as a fallback.
C12_NoDelimitersOrDegraded ==
    ret.op = "report_text" =>
        \/ \A i \in 1..Len(ret.out) : ret.out[i] \notin Delimiters
        \/ ret.fallback

\* t has a run of three newlines
HasLongRun(t) == \E i \in 1..(Len(t) - 2) : \A k \in i..(i + 2) : t[k] = "nl"

\* C13: the output of _clean_markdown has no run of 3 or more newlines, and two
\* words with 3 or more newlines between them come out with exactly 2.
C13_NewlineRunsCollapsed ==
    ret.op = "_clean_markdown" =>
        /\ ~HasLongRun(ret.out)
        /\ \A k \in 3..MaxRun : ret.text = Separated(k) => ret.out = Separated(2)

\* two words with a run of more than 3 newlines between them were cleaned
C13_Witness ==
    /\ ret.op = "_clean_markdown"
    /\ \E k \in 4..MaxRun : ret.text = Separated(k)
    /\ ret.out = Separated(2)

\* C14: when the configuration has supports_temperature false, its temperature
\* is None whatever temperature was passed, and neither the test request, the
\* report call nor the chat call has a temperature argument.
C14_NoTemperatureWhenUnsupported ==
    (/\ ret.op = "LLMConfig"
     /\ "supports_temperature" \in DOMAIN ret.config
     /\ ~ret.config.supports_temperature) =>
        /\ ret.config.temperature = {}
        /\ \A c \in DOMAIN ret.calls : "temperature" \notin DOMAIN ret.calls[c]

\* an o1 configuration was built with a temperature passed, and its calls taken
C14_Witness ==
    /\ ret.op = "LLMConfig"
    /\ ret.config.provider = "openai"
    /\ ret.config.model_name = {O1}
    /\ ret.temperature_arg = {5}
    /\ ~ret.config.supports_temperature
    /\ DOMAIN ret.calls = {"ping", "report", "chat"}

\* C15 (the claim as stated): every completion call, of a report and of a chat,
\* for every provider kind, carries a bound on the output tokens.
C15_EveryCallBoundsTokens ==
    (ret.op = "LLMConfig" /\ ret.config.provider \in Providers) =>
        \A c \in {"report", "chat"} :
            \E k \in {"max_tokens", "max_output_tokens"} :
                /\ k \in DOMAIN ret.calls[c]
                /\ ret.calls[c][k] # {}

\* C16 (the claim as stated): every request that has been taken up is answered
\* in the end, its slot free again, whatever the backend does.
C16_EveryRequestReturns ==
    \A r \in Slots : (slot[r].pc # "idle") ~> (slot[r].pc = "idle")

\* the block lines of a prompt, in order
BlockHeaders(lines) == SelectSeq(lines, LAMBDA l : l.line = "block")

\* C17 (the claim as stated): the prompt has one block line per top-level key of
\* the payload, in the payload's order, each with the key exactly as it is in
\* the payload.
C17_PromptKeepsKeys ==
    ret.op = "pgd_text" =>
        LET headers == BlockHeaders(ret.lines)
        IN  /\ Len(headers) = Len(ret.pgd_data)
            /\ \A i \in 1..Len(headers) : headers[i].name = ret.pgd_data[i].key

\* C18: in every step, the record of a session id is created with count 1,
\* or is counted up by one, or is removed while its last_seen is more than
\* SESSION_TTL old, or stays as it is; and a record that is there has a count of
\* at least 1.
C18_RecordTransitions ==
    [][\A s \in Sessions :
          LET before == s \in DOMAIN _session_counters
              after == s \in DOMAIN _session_counters'
          IN  /\ (~before /\ after) => _session_counters'[s].count = 1
              /\ (before /\ after) =>
                    \/ _session_counters'[s] = _session_counters[s]
                    \/ /\ _session_counters'[s].count = _session_counters[s].count + 1
                       /\ _session_counters'[s].last_seen = now
              /\ (before /\ ~after) =>
                    now - _session_counters[s].last_seen > SESSION_TTL
              /\ after => _session_counters'[s].count >= 1]_vars

\* a sweep has removed the record of one session and kept that of another,
\* exactly SESSION_TTL old
C18_Witness ==
    \E s, t \in Sessions :
        /\ s \in DOMAIN _session_counters
        /\ now - _session_counters[s].last_seen = SESSION_TTL
        /\ removed[t] # "no"
        /\ t \notin DOMAIN _session_counters

\* how many times e is in the sequence of events
Times(events, e) == Cardinality({j \in 1..Len(events) : events[j] = e})

\* C19: _call_openai starts with an attempt, sleeps exactly once between two
\* attempts and never after the last one; when all 3 attempts fail it has slept
\* twice and the exception leaves the method.
C19_BackoffBetweenAttempts ==
    ret.op = "_call_openai" =>
        LET ev == ret.events
        IN  /\ ev[1] = "call"
            /\ \A j \in 1..(Len(ev) - 1) :
                  /\ ev[j] = "sleep" => ev[j + 1] = "call"
                  /\ ev[j] = "call" =>
                        \/ ev[j + 1] = "sleep" /\ j + 2 <= Len(ev)
                        \/ ev[j + 1] \in {"return", "raise"} /\ j + 1 = Len(ev)
            /\ ev[Len(ev)] \in {"return", "raise"}
            /\ Times(ev, "call") = ret.result.calls
            /\ Times(ev, "sleep") = ret.result.sleeps
            /\ Times(ev, "sleep") = Times(ev, "call") - 1
            /\ (ev[Len(ev)] = "raise") = ret.result.raised
            /\ ret.result.raised =>
                  /\ Times(ev, "call") = attempts
                  /\ Times(ev, "sleep") = attempts - 1

\* every attempt of a call of _call_openai failed and the exception left it
C19_Witness ==
    /\ ret.op = "_call_openai"
    /\ ret.outcomes = NoOutcomes
    /\ ret.result.raised
    /\ ret.result.sleeps = attempts - 1

\* C20 (the claim as stated): with a client and an SDK call that returns a
\* completion, get_llm_response returns the model's text and chat_with_report
\* the model's answer, for every provider kind.
C20_CompletionIsReturned ==
    (ret.op \in {"get_llm_response", "chat_with_report"} /\ client) =>
        /\ (ret.op = "get_llm_response" /\ ret.outcomes[1] = "ok") =>
              ret.result.text = "model"
        /\ (ret.op = "chat_with_report" /\ ret.outcome = "ok") =>
              ret.result.text = "model"

\* C21: the step that counts a question raises the session's count by exactly
\* one and sets last_seen to the time of the call; and when the model call of
\* that question fails, the response is the apology with the raised
\* questions_used, and the count stays raised.
C21_FailedCallStillCounts ==
    [][\A r \in Slots :
          LET sid == slot[r].session_id
          IN  /\ (slot[r].pc = "increment" /\ slot'[r].pc = "dispatch") =>
                    /\ CountAfter(sid) = Count(sid) + 1
                    /\ CountAfter(sid) = slot[r].current_count + 1
                    /\ _session_counters'[sid].last_seen = now
                    /\ slot'[r].new_count = CountAfter(sid)
              /\ (/\ slot[r].pc = "dispatch" /\ slot'[r].pc = "idle"
                  /\ resp'.endpoint = "chat"
                  /\ resp'.body.reply = "apology") =>
                    /\ resp'.dispatch
                    /\ resp'.session = sid
                    /\ resp'.body.questions_used = slot[r].current_count + 1
                    /\ CountAfter(sid) = resp'.body.questions_used
                    /\ _session_counters' = _session_counters]_vars

\* the last question of a quota, asked a day after the first, has just failed
C21_Witness ==
    /\ resp.endpoint = "chat"
    /\ resp.nth > 0
    /\ resp.dispatch
    /\ resp.body.reply = "apology"
    /\ resp.body.questions_used = MAX_QUESTIONS
    /\ now > 0
    /\ _session_counters[resp.session].last_seen = now

\* the session was refused at least once since its record was created
Refused(s) == asked[s] > MAX_QUESTIONS

\* C22: a request refused for exhausted quota leaves the record of its session
\* as it is, last_seen included; the sweep at the head of a request removes the
\* record of a session at its limit once its last counted question is more than
\* SESSION_TTL old, refused requests or not; and the first request of that
\* session afterwards is dispatched and reports questions_used = 1.
C22_RefusalDoesNotRefresh ==
    [][/\ (resp'.endpoint = "chat" /\ resp'.nth > 0 /\ ~resp'.dispatch) =>
            /\ resp'.session \in DOMAIN _session_counters
            /\ _session_counters' = _session_counters
       /\ \A s \in Sessions :
            (/\ \/ \E r \in Slots : slot[r].pc = "idle" /\ slot'[r].pc = "check"
                \/ resp'.endpoint = "chat" /\ resp'.nth = 0
             /\ s \in DOMAIN _session_counters
             /\ Count(s) = MAX_QUESTIONS
             /\ Refused(s)
             /\ now - _session_counters[s].last_seen > SESSION_TTL) =>
                s \notin DOMAIN _session_counters'
       /\ \A s \in Sessions :
            (Count(s) = MAX_QUESTIONS /\ Refused(s)) =>
                \/ CountAfter(s) = 0
                \/ _session_counters'[s] = _session_counters[s]
       /\ (/\ resp'.endpoint = "chat" /\ resp'.nth = 1
           /\ removed'[resp'.session] = "refused") =>
            /\ resp'.dispatch
            /\ resp'.body.questions_used = 1]_vars

\* a session at its limit was refused after its last counted question and, two
\* days after that question, is served again as a new one
C22_Witness ==
    /\ resp.endpoint = "chat" /\ resp.nth = 1 /\ resp.dispatch
    /\ removed[resp.session] = "refused"
    /\ resp.body.questions_used = 1
    /\ Count(resp.session) = 1

====
